---- MODULE Spec2Model ----
(***************************************************************************)
(* vagueTime.js: conversion of a precise timestamp (seconds) to a vague     *)
(* time such as 'just now' or '3 weeks ago'.                                *)
(*                                                                          *)
(* Millisecond quantities of the source (Date time values, the unit table,  *)
(* times.difference) exceed the 32-bit integers of the model checker, so a  *)
(* millisecond number n is carried as the record [s |-> n \div 1000,        *)
(* ms |-> n % 1000] (floor division, 0 <= ms < 1000).  Ms(31557600, 0) is   *)
(* the number 31557600000.  All arithmetic on such numbers is exact, as it  *)
(* is on the doubles of the source in this range.                           *)
(***************************************************************************)
EXTENDS Integers, Sequences, FiniteSets, TLC

VARIABLES
    clock,               \* Date.now(), a millisecond number
    timestamp,           \* first argument of get (seconds)
    referenceTimestamp,  \* second argument of get, optional
    times,               \* the record getTimes built in the last call
    result,              \* the string the last call returned
    first,               \* difference and result of the first of two identical calls
    calls                \* number of calls made so far (0..2)

vars == <<clock, timestamp, referenceTimestamp, times, result, first, calls>>

----------------------------------------------------------------------------
(* Bounds of the model *)

MaxCount == 2        \* gaps are built from up to MaxCount of each of two units
Slack == 1           \* ... plus or minus up to Slack seconds
MaxTicks == 3        \* the wall clock advances at most MaxTicks times
Epoch0 == 1356998400 \* wall-clock second at which the model starts

----------------------------------------------------------------------------
(* Millisecond numbers *)

Ms(sec, msec) == [s |-> sec, ms |-> msec]

MsZero == Ms(0, 0)

MsNeg(a) == IF a.ms = 0 THEN Ms(-a.s, 0) ELSE Ms(-a.s - 1, 1000 - a.ms)

MsAdd(a, b) ==
    IF a.ms + b.ms >= 1000 THEN Ms(a.s + b.s + 1, a.ms + b.ms - 1000)
                           ELSE Ms(a.s + b.s, a.ms + b.ms)

\* a - b
MsSub(a, b) ==
    IF a.ms - b.ms < 0 THEN Ms(a.s - b.s - 1, a.ms - b.ms + 1000)
                       ELSE Ms(a.s - b.s, a.ms - b.ms)

\* a >= b
MsGE(a, b) == a.s > b.s \/ (a.s = b.s /\ a.ms >= b.ms)

MsNegative(a) == a.s < 0

\* Math.ceil in place of Math.floor
MsCeilDiv(a, unit) ==
    a.s \div unit.s + (IF a.s % unit.s = 0 /\ a.ms = 0 THEN 0 ELSE 1)

\* Math.floor(a / unit), an ordinary integer; every divisor of the source is
\* a whole number of seconds (unit.ms = 0)
MsFloorDiv(a, unit) == a.s \div unit.s

\* a % unit of JavaScript: the remainder carries the sign of the dividend
MsRem(a, unit) ==
    IF MsNegative(a)
    THEN LET p == MsNeg(a) IN MsNeg(Ms(p.s % unit.s, p.ms))
    ELSE Ms(a.s % unit.s, a.ms)

----------------------------------------------------------------------------
(* Strings and numbers *)

DigitValue(c) == CHOOSE d \in 0..9 : ToString(d) = c

RECURSIVE ParseDigits(_)
ParseDigits(str) ==
    IF Len(str) = 0 THEN 0
    ELSE ParseDigits(SubSeq(str, 1, Len(str) - 1)) * 10
            + DigitValue(SubSeq(str, Len(str), Len(str)))

\* ToNumber of a decimal integer literal, as a millisecond number: the last
\* three digits are the milliseconds, the digits before them the seconds
StringToNumber(str) ==
    LET negative == Len(str) > 0 /\ SubSeq(str, 1, 1) = "-"
        digits   == IF negative THEN SubSeq(str, 2, Len(str)) ELSE str
        n        == Len(digits)
        abs      == IF n > 3
                    THEN Ms(ParseDigits(SubSeq(digits, 1, n - 3)),
                            ParseDigits(SubSeq(digits, n - 2, n)))
                    ELSE Ms(0, ParseDigits(digits))
    IN  IF negative THEN MsNeg(abs) ELSE abs

\* an optional argument: omitted (undefined) or a number
Undefined == [given |-> FALSE, value |-> 0]
Arg(n) == [given |-> TRUE, value |-> n]

\* ToBoolean of an optional numeric argument: undefined and 0 are falsy
Truthy(arg) == arg.given /\ arg.value # 0

----------------------------------------------------------------------------
(* The program *)

constants == [
    year   |-> Ms(31557600, 0),
    month  |-> Ms(2629800, 0),
    week   |-> Ms(604800, 0),
    day    |-> Ms(86400, 0),
    hour   |-> Ms(3600, 0),
    minute |-> Ms(60, 0)
]

\* amount !== 1 in place of amount > 1
pluraliseNoun_notOne(amount, noun) == noun \o (IF amount # 1 THEN "s" ELSE "")

pluraliseNoun(amount, noun) == noun \o (IF amount > 1 THEN "s" ELSE "")

\* Math.round in place of Math.floor
getTimeDifferenceAsUnits_round(differenceInMs, unitInMs, unitName) ==
    LET r     == MsRem(differenceInMs, unitInMs)
        units == MsFloorDiv(differenceInMs, unitInMs)
                    + (IF 2 * r.s + (2 * r.ms) \div 1000 >= unitInMs.s THEN 1 ELSE 0)
    IN  ToString(units) \o " " \o pluraliseNoun(units, unitName) \o " ago"

getTimeDifferenceAsUnits(differenceInMs, unitInMs, unitName) ==
    LET units == MsFloorDiv(differenceInMs, unitInMs)
    IN  ToString(units) \o " " \o pluraliseNoun(units, unitName) \o " ago"

\* the second amount taken from the whole difference, not the remainder
getTimeDifferenceAsMixedUnits_noRem(differenceInMs, firstUnitInMs, firstUnitName, secondUnitInMs, secondUnitName) ==
    LET firstUnits  == MsFloorDiv(differenceInMs, firstUnitInMs)
        secondUnits == MsFloorDiv(differenceInMs, secondUnitInMs)
    IN  ToString(firstUnits) \o " " \o pluraliseNoun(firstUnits, firstUnitName)
            \o " and " \o ToString(secondUnits) \o " "
            \o pluraliseNoun(secondUnits, secondUnitName) \o " ago"

getTimeDifferenceAsMixedUnits(differenceInMs, firstUnitInMs, firstUnitName, secondUnitInMs, secondUnitName) ==
    LET firstUnits  == MsFloorDiv(differenceInMs, firstUnitInMs)
        secondUnits == MsFloorDiv(MsRem(differenceInMs, firstUnitInMs), secondUnitInMs)
    IN  ToString(firstUnits) \o " " \o pluraliseNoun(firstUnits, firstUnitName)
            \o " and " \o ToString(secondUnits) \o " "
            \o pluraliseNoun(secondUnits, secondUnitName) \o " ago"

getTimeDifferenceAsYears(difference) ==
    getTimeDifferenceAsUnits(difference, constants.year, "year")

getTimeDifferenceAsMonths(difference) ==
    getTimeDifferenceAsUnits(difference, constants.month, "month")

getTimeDifferenceAsWeeks(difference) ==
    getTimeDifferenceAsUnits(difference, constants.week, "week")

getTimeDifferenceAsDays(difference) ==
    getTimeDifferenceAsUnits(difference, constants.day, "day")

getTimeDifferenceAsHours(difference) ==
    getTimeDifferenceAsUnits(difference, constants.hour, "hour")

getTimeDifferenceAsMinutes(difference) ==
    getTimeDifferenceAsUnits(difference, constants.minute, "minute")

\* the test for an exact number of years left out
getTimeDifferenceAsYearsAndMonths_alwaysMixed(difference) ==
    getTimeDifferenceAsMixedUnits(difference, constants.year, "year",
                                  constants.month, "month")

getTimeDifferenceAsYearsAndMonths(difference) ==
    IF MsRem(difference, constants.year) = MsZero
    THEN getTimeDifferenceAsYears(difference)
    ELSE getTimeDifferenceAsMixedUnits(difference, constants.year, "year",
                                       constants.month, "month")

\* new Date(); time.setTime(t): the Date's time value is t
getTime(t) == t

\* the difference taken as a distance: Math.abs(now - then)
getTimes_abs(ts, ref, now) ==
    LET then == getTime(StringToNumber(ToString(ts) \o "000"))
        nw   == IF Truthy(ref)
                THEN getTime(StringToNumber(ToString(ref.value) \o "000"))
                ELSE getTime(now)
        d    == MsSub(nw, then)
    IN  [then |-> then, now |-> nw,
         difference |-> IF MsNegative(d) THEN MsNeg(d) ELSE d]

\* getTimes(timestamp, referenceTimestamp), with Date.now() = now
getTimes(ts, ref, now) ==
    LET then == getTime(StringToNumber(ToString(ts) \o "000"))
        nw   == IF Truthy(ref)
                THEN getTime(StringToNumber(ToString(ref.value) \o "000"))
                ELSE getTime(now)
    IN  [then |-> then, now |-> nw, difference |-> MsSub(nw, then)]

\* the thresholds compared with > in place of >=
vagueTimeOf_strict(difference) ==
    IF ~MsGE(constants.year, difference)
    THEN getTimeDifferenceAsYearsAndMonths(difference)
    ELSE IF ~MsGE(constants.month, difference)
    THEN getTimeDifferenceAsMonths(difference)
    ELSE IF ~MsGE(constants.week, difference)
    THEN getTimeDifferenceAsWeeks(difference)
    ELSE IF ~MsGE(constants.day, difference)
    THEN getTimeDifferenceAsDays(difference)
    ELSE IF ~MsGE(constants.hour, difference)
    THEN getTimeDifferenceAsHours(difference)
    ELSE IF ~MsGE(constants.minute, difference)
    THEN getTimeDifferenceAsMinutes(difference)
    ELSE "just now"

\* the last test of the cascade left out: minutes whatever the difference
vagueTimeOf_noJustNow(difference) ==
    IF MsGE(difference, constants.year)
    THEN getTimeDifferenceAsYearsAndMonths(difference)
    ELSE IF MsGE(difference, constants.month)
    THEN getTimeDifferenceAsMonths(difference)
    ELSE IF MsGE(difference, constants.week)
    THEN getTimeDifferenceAsWeeks(difference)
    ELSE IF MsGE(difference, constants.day)
    THEN getTimeDifferenceAsDays(difference)
    ELSE IF MsGE(difference, constants.hour)
    THEN getTimeDifferenceAsHours(difference)
    ELSE getTimeDifferenceAsMinutes(difference)

\* the cascade of getVagueTime on times.difference
vagueTimeOf(difference) ==
    IF MsGE(difference, constants.year)
    THEN getTimeDifferenceAsYearsAndMonths(difference)
    ELSE IF MsGE(difference, constants.month)
    THEN getTimeDifferenceAsMonths(difference)
    ELSE IF MsGE(difference, constants.week)
    THEN getTimeDifferenceAsWeeks(difference)
    ELSE IF MsGE(difference, constants.day)
    THEN getTimeDifferenceAsDays(difference)
    ELSE IF MsGE(difference, constants.hour)
    THEN getTimeDifferenceAsHours(difference)
    ELSE IF MsGE(difference, constants.minute)
    THEN getTimeDifferenceAsMinutes(difference)
    ELSE "just now"

getVagueTime(ts, ref, now) == vagueTimeOf(getTimes(ts, ref, now).difference)

----------------------------------------------------------------------------
(* Inputs *)

UnitSeconds == {constants.year.s, constants.month.s, constants.week.s,
                constants.day.s, constants.hour.s, constants.minute.s}

\* gaps in seconds: on, just below and just above sums of whole units
PastGaps == {a * u + b * v + d : u \in UnitSeconds, v \in UnitSeconds,
                                 a \in 0..MaxCount, b \in 0..MaxCount,
                                 d \in (-Slack)..Slack}

\* ... and the same gaps into the future of the reference
Gaps == PastGaps \cup {-g : g \in PastGaps}

\* reference instants: a day before the epoch, the epoch, the present
RefSeconds == {-constants.day.s, 0, Epoch0}

References == {Undefined} \cup {Arg(r) : r \in RefSeconds}

Timestamps == {r - g : r \in RefSeconds, g \in Gaps}

ClockStart == Ms(Epoch0, 999)
ClockStep  == Ms(30, 500)

----------------------------------------------------------------------------
(* State machine *)

NoCall == [difference |-> MsZero, result |-> ""]

\* the caller's arguments are fixed at the start; no call has been made yet
Init ==
    /\ clock = ClockStart
    /\ timestamp \in Timestamps
    /\ referenceTimestamp \in References
    /\ times = [then |-> MsZero, now |-> MsZero, difference |-> MsZero]
    /\ result = ""
    /\ first = NoCall
    /\ calls = 0

\* the wall clock advances
Tick ==
    /\ clock.s < Epoch0 + MaxTicks * ClockStep.s
    /\ clock' = MsAdd(clock, ClockStep)
    /\ UNCHANGED <<timestamp, referenceTimestamp, times, result, first, calls>>

\* vagueTime.get(timestamp, referenceTimestamp)
Get ==
    /\ calls = 0
    /\ times' = getTimes(timestamp, referenceTimestamp, clock)
    /\ result' = getVagueTime(timestamp, referenceTimestamp, clock)
    /\ calls' = 1
    /\ UNCHANGED <<clock, timestamp, referenceTimestamp, first>>

\* vagueTime.get called a second time with the same arguments
GetAgain ==
    /\ calls = 1
    /\ times' = getTimes(timestamp, referenceTimestamp, clock)
    /\ result' = getVagueTime(timestamp, referenceTimestamp, clock)
    /\ first' = [difference |-> times.difference, result |-> result]
    /\ calls' = 2
    /\ UNCHANGED <<clock, timestamp, referenceTimestamp>>

Next == Tick \/ Get \/ GetAgain

Spec == Init /\ [][Next]_vars

----------------------------------------------------------------------------
(* Reading a returned phrase *)

UnitOrder == <<"minute", "hour", "day", "week", "month", "year">>

\* the unit constants as the specification lists them (minute .. year), in
\* whole seconds: 60000 ms, 3600000 ms, 86400000 ms, 604800000 ms,
\* 2629800000 ms, 31557600000 ms
SpecSeconds == <<60, 3600, 86400, 604800, 2629800, 31557600>>

Returned == calls >= 1

difference == times.difference

\* a >= n whole seconds
AtLeastSeconds(a, n) == MsGE(a, Ms(n, 0))

\* number of unit thresholds the difference has reached (0 .. 6)
Rank(d) == Cardinality({i \in 1..6 : AtLeastSeconds(d, SpecSeconds[i])})

FirstSpace(str) ==
    LET S == {i \in 1..Len(str) : SubSeq(str, i, i) = " "}
    IN  IF S = {} THEN 0 ELSE CHOOSE i \in S : \A j \in S : i <= j

RECURSIVE Split(_)
Split(str) ==
    IF Len(str) = 0 THEN <<>>
    ELSE LET i == FirstSpace(str)
         IN  IF i = 0 THEN <<str>>
             ELSE <<SubSeq(str, 1, i - 1)>> \o Split(SubSeq(str, i + 1, Len(str)))

Contains(str, sub) ==
    \E i \in 1..(Len(str) - Len(sub) + 1) : SubSeq(str, i, i + Len(sub) - 1) = sub

IsCount(w) ==
    /\ Len(w) > 0
    /\ \A i \in 1..Len(w) : \E d \in 0..9 : SubSeq(w, i, i) = ToString(d)

\* 0 when w is no unit noun, else the place of its unit in UnitOrder
NounUnit(w) ==
    LET S == {i \in 1..6 : w = UnitOrder[i] \/ w = UnitOrder[i] \o "s"}
    IN  IF S = {} THEN 0 ELSE CHOOSE i \in S : TRUE

IsSingle(w) == Len(w) = 3 /\ IsCount(w[1]) /\ NounUnit(w[2]) > 0 /\ w[3] = "ago"

IsMixed(w) ==
    /\ Len(w) = 6
    /\ IsCount(w[1]) /\ NounUnit(w[2]) > 0 /\ w[3] = "and"
    /\ IsCount(w[4]) /\ NounUnit(w[5]) > 0 /\ w[6] = "ago"

\* the unit category of a phrase: 0 for 'just now', 1..6 for minute..year,
\* -1 for anything else
Category(str) ==
    LET w == Split(str)
    IN  IF str = "just now" THEN 0
        ELSE IF IsSingle(w) \/ IsMixed(w) THEN NounUnit(w[2])
        ELSE -1

\* the phrase the specification prescribes for a count and a unit name
Counted(n, noun) == ToString(n) \o " " \o noun \o (IF n > 1 THEN "s" ELSE "")

\* a <count> <noun> pair of a phrase is plural exactly when count > 1
PairPlural(count, noun) ==
    /\ IsCount(count)
    /\ NounUnit(noun) > 0
    /\ (noun = UnitOrder[NounUnit(noun)] \o "s") <=> (ParseDigits(count) > 1)

----------------------------------------------------------------------------
(* Claims *)

\* C1: for each unit u of minute, hour, day, week, month and every difference
\* with u <= difference < next larger unit, get returns "<N> <u>[s] ago" with
\* N = floor(difference / u), the noun singular if and only if N = 1.
C1_SingleUnitPhrase ==
    Returned =>
        \A i \in 1..5 :
            (MsGE(difference, Ms(SpecSeconds[i], 0))
                /\ ~MsGE(difference, Ms(SpecSeconds[i + 1], 0)))
            => LET N == difference.s \div SpecSeconds[i]
               IN  result = ToString(N) \o " " \o UnitOrder[i]
                                \o (IF N = 1 THEN "" ELSE "s") \o " ago"

C1_Witness ==
    /\ Returned
    /\ difference = Ms(2629800 - 1, 0)
    /\ result = "4 weeks ago"

\* C2: every difference with 0 <= difference < 60000 ms yields "just now".
C2_JustNow ==
    (Returned /\ ~MsNegative(difference) /\ ~AtLeastSeconds(difference, 60))
        => result = "just now"

C2_Witness ==
    /\ Returned
    /\ difference = Ms(59, 999)
    /\ result = "just now"

\* C3: every difference >= 1 year that is no exact multiple of the year
\* yields "<Y> year[s] and <M> month[s] ago", Y = floor(difference / year),
\* M = floor((difference mod year) / month); a gap of 34187400 seconds yields
\* "1 year and 1 month ago".
C3_YearsAndMonths ==
    Returned =>
        /\ (AtLeastSeconds(difference, 31557600)
                /\ ~(difference.s % 31557600 = 0 /\ difference.ms = 0))
           => LET Y == difference.s \div 31557600
                  M == (difference.s % 31557600) \div 2629800
              IN  result = Counted(Y, "year") \o " and " \o Counted(M, "month") \o " ago"
        /\ difference = Ms(34187400, 0) => result = "1 year and 1 month ago"

C3_Witness ==
    /\ Returned
    /\ difference = Ms(34187400, 0)
    /\ result = "1 year and 1 month ago"

\* C4: every difference that is a positive exact multiple N of the year yields
\* "<N> year[s] ago" with no month component, and a years-only phrase is
\* returned only when difference mod year = 0.
C4_ExactYears ==
    Returned =>
        /\ (AtLeastSeconds(difference, 31557600)
                /\ difference.s % 31557600 = 0 /\ difference.ms = 0)
           => /\ result = Counted(difference.s \div 31557600, "year") \o " ago"
              /\ ~Contains(result, " and ")
              /\ ~Contains(result, "month")
        /\ (IsSingle(Split(result)) /\ Category(result) = 6)
           => (difference.s % 31557600 = 0 /\ difference.ms = 0)

C4_Witness ==
    /\ Returned
    /\ difference = Ms(2 * 31557600, 0)
    /\ result = "2 years ago"

\* every noun of the returned phrase carries "s" if and only if its count > 1
C5_Plurals ==
    LET w == Split(result)
    IN  \/ result = "just now"
        \/ IsSingle(w) /\ PairPlural(w[1], w[2])
        \/ IsMixed(w) /\ PairPlural(w[1], w[2]) /\ PairPlural(w[4], w[5])

\* C5 (as stated): nouns are plural if and only if their count is > 1, and
\* every difference of at least one year whose remainder is less than one
\* month renders as "<Y> year[s] and 0 month ago".
C5_AsStated ==
    Returned =>
        /\ C5_Plurals
        /\ (AtLeastSeconds(difference, 31557600)
                /\ difference.s % 31557600 < 2629800)
           => result = Counted(difference.s \div 31557600, "year") \o " and 0 month ago"

\* C5 (amended): nouns are plural if and only if their count is > 1, and
\* every difference of at least one year whose remainder is not zero and less
\* than one month renders as "<Y> year[s] and 0 month ago".
C5_ZeroMonthSingular ==
    Returned =>
        /\ C5_Plurals
        /\ (AtLeastSeconds(difference, 31557600)
                /\ difference.s % 31557600 < 2629800
                /\ ~(difference.s % 31557600 = 0 /\ difference.ms = 0))
           => result = Counted(difference.s \div 31557600, "year") \o " and 0 month ago"

C5_Witness ==
    /\ Returned
    /\ difference = Ms(2 * 31557600 + 1, 0)
    /\ result = "2 years and 0 month ago"

\* C6: the unit category of the result changes exactly at each unit constant:
\* the largest difference below a threshold T (T - 1 ms) yields the next
\* smaller category, difference = T yields the category of T with count 1,
\* and the category never decreases as the difference grows.
C6_CategoryBoundaries ==
    Returned =>
        /\ Category(result) = Rank(difference)
        /\ \A i \in 1..6 :
              /\ difference = Ms(SpecSeconds[i], 0)
                    => result = "1 " \o UnitOrder[i] \o " ago"
              /\ difference = Ms(SpecSeconds[i] - 1, 999)
                    => Category(result) = i - 1
        /\ (calls = 2 /\ MsGE(difference, first.difference))
              => Category(first.result) <= Category(result)

C6_Witness ==
    /\ calls = 2
    /\ first.difference = Ms(31557600 - 1, 999)
    /\ first.result = "11 months ago"
    /\ difference = Ms(31557600 + 30, 499)
    /\ result = "1 year and 0 month ago"

\* C7: two calls of get with identical timestamp and identical integer
\* referenceTimestamp return identical strings, however the wall clock
\* advances between them.
C7_Deterministic ==
    (calls = 2 /\ referenceTimestamp.given) => first.result = result

\* C8: with a referenceTimestamp supplied, the difference used for unit
\* selection is (referenceTimestamp - timestamp) * 1000 ms and "now" is the
\* reference, not the wall clock.
C8_DifferenceFromReference ==
    (Returned /\ referenceTimestamp.given)
        => /\ times.now = Ms(referenceTimestamp.value, 0)
           /\ difference = Ms(referenceTimestamp.value - timestamp, 0)

\* C9: get returns a string (one of its phrases) for every pair of inputs,
\* negative timestamps included, and a timestamp later than "now" (a negative
\* difference now - timestamp * 1000) yields "just now".
C9_NegativeIsJustNow ==
    Returned =>
        /\ result \in STRING
        /\ Category(result) >= 0
        /\ MsNegative(MsSub(times.now, Ms(timestamp, 0))) => result = "just now"

C9_Witness ==
    /\ Returned
    /\ timestamp < 0
    /\ referenceTimestamp.given
    /\ timestamp = referenceTimestamp.value + 3600
    /\ result = "just now"

\* largest leading count of a single-unit phrase, by unit (minute .. month)
CascadeMax == <<59, 23, 6, 4, 11>>

\* C10: for every difference >= 60000 ms the leading count N is at least 1,
\* minutes are in 1..59, hours in 1..23, days in 1..6, weeks in 1..4, months
\* of a single-unit phrase in 1..11, years >= 1, the month count of a mixed
\* phrase is in 0..11, and N * unit <= difference < (N + 1) * unit.
C10_CountRanges ==
    (Returned /\ AtLeastSeconds(difference, 60)) =>
        LET w == Split(result)
            u == Category(result)
            N == ParseDigits(w[1])
        IN  /\ u >= 1
            /\ N >= 1
            /\ u <= 5 => (IsSingle(w) /\ N <= CascadeMax[u])
            /\ IsMixed(w) => (u = 6 /\ NounUnit(w[5]) = 5
                                /\ ParseDigits(w[4]) \in 0..11)
            /\ AtLeastSeconds(difference, N * SpecSeconds[u])
            /\ ~AtLeastSeconds(difference, (N + 1) * SpecSeconds[u])

C10_Witness ==
    /\ Returned
    /\ difference = Ms(2 * 31557600 - 1, 0)
    /\ result = "1 year and 11 months ago"

====
